---- MODULE Spec2Model ----
(***************************************************************************)
(* A model of problemo/solverwrap.py: the module-level backend probes, the *)
(* registry (active, solvers, BestSolver) and one adapter instance with    *)
(* its system matrix, its lazily built factorization handle, the batch     *)
(* solve and, for the MKL PARDISO adapter, the destructor.                 *)
(*                                                                         *)
(* Python indices are kept 0-based.  A native backend call is modelled by  *)
(* what the wrapper can observe of it: it returns a value determined by    *)
(* its arguments, or it raises.  Which of the two happens is an input of   *)
(* the action that makes the call.                                         *)
(***************************************************************************)
EXTENDS Integers, Sequences, FiniteSets, TLC

\* Bounds of the model.
MaxCols == 2          \* columns of a right-hand-side batch: 0..MaxCols
MaxFactorCalls == 2   \* invocations of a backend factorization routine

\* Rows of a right-hand-side batch.
RhsRows == {0, 1}

Backends == <<"mumps", "mklpardiso", "splu">>
ClassOf == [mumps |-> "MumpsSolver", mklpardiso |-> "MKLPardisoSolver",
            splu |-> "SuperLUSolver"]
LoadOutcomes == {"ok", "ImportError", "SyntaxError"}

VARIABLES
    pc,                 \* position in the module body: which statement runs next
    importError,        \* the exception that ended the import, or "none"
    active,             \* solverwrap.active
    solvers,            \* solverwrap.solvers: identifier -> adapter class
    BestSolver,         \* solverwrap.BestSolver, "unbound" until line 175
    _MumpsSolver,       \* the three delegates: "unbound", "None" or "loaded"
    _MKLPardisoSolver,
    _SuperLUSolver,
    cls,                \* the class of the adapter instance, "none" before __init__
    _A,                 \* the instance attribute _A (NoA: no such attribute)
    _Ainv,              \* the instance attribute _Ainv (NoHandle: no such attribute)
    factorCalls,        \* how often a backend factorization routine was invoked
    released,           \* handles on which run_pardiso(-1) has run
    last,               \* what the most recent operation on the instance did
    tpc,                \* two callers of __mul__ on the instance: where each one is
    tcols,              \* the number of columns of each caller's batch
    th,                 \* each caller's local value: the handle built or returned
    tused               \* the handles each caller's backend solves ran on

modvars == <<pc, importError, active, solvers, BestSolver,
             _MumpsSolver, _MKLPardisoSolver, _SuperLUSolver>>
objvars == <<cls, _A, _Ainv, factorCalls, released, last>>
thrvars == <<tpc, tcols, th, tused>>
vars == <<modvars, objvars, thrvars>>

(***************************************************************************)
(* Values                                                                  *)
(***************************************************************************)
\* Values a caller may pass as the system matrix: None, scipy sparse
\* matrices (of two shapes) and a value that is not a sparse matrix.
None == [kind |-> "None", id |-> 0, shape |-> <<0, 0>>]
SparseMatrices == {[kind |-> "spmatrix", id |-> 1, shape |-> <<2, 2>>],
                   [kind |-> "spmatrix", id |-> 2, shape |-> <<2, 3>>]}
NonSparse == {[kind |-> "ndarray", id |-> 3, shape |-> <<2, 2>>]}
AValues == {None} \cup SparseMatrices \cup NonSparse
\* hasattr(self, '_A') is false
NoA == [kind |-> "noattr", id |-> 0, shape |-> <<0, 0>>]

\* A factorization handle: id numbers the invocation that built it, A is
\* the id of the matrix it was built from, factorized tells whether the
\* factorization of A completed on it.
NoHandle == [id |-> 0, A |-> 0, factorized |-> FALSE]

\* Right-hand-side batches.  data maps <<row, column>> to the entry: a dense
\* array holds every entry, a sparse matrix only the stored nonzero ones.
\* The columns of a batch are unit vectors.
UnitVectors == {[r \in RhsRows |-> IF r = k THEN 1 ELSE 0] : k \in RhsRows}
ColumnLists == UNION {[0 .. n - 1 -> UnitVectors] : n \in 0 .. MaxCols}
NCols(cols) == Cardinality(DOMAIN cols)
Cells(n) == RhsRows \X (0 .. n - 1)
DenseOf(cols) ==
    [kind |-> "ndarray", shape |-> <<Cardinality(RhsRows), NCols(cols)>>,
     data |-> [p \in Cells(NCols(cols)) |-> cols[p[2]][p[1]]]]
SparseOf(cols) ==
    [kind |-> "spmatrix", shape |-> <<Cardinality(RhsRows), NCols(cols)>>,
     data |-> [p \in {x \in Cells(NCols(cols)) : cols[x[2]][x[1]] # 0} |-> cols[p[2]][p[1]]]]
DenseBatches == {DenseOf(cols) : cols \in ColumnLists}
SparseBatches == {SparseOf(cols) : cols \in ColumnLists}
Batches == DenseBatches \cup SparseBatches
NoBatch == [kind |-> "none", shape |-> <<0, 0>>, data |-> <<>>]

\* np.empty(shape): no column written yet
NoResult == [shape |-> <<0, 0>>, cols |-> <<>>]

\* The record of an operation on the instance.
\*   op      the operation
\*   err     the exception it raised, "none" if it returned
\*   A       the matrix passed to or returned by it
\*   rhs     the batch passed to a solve
\*   calls   the invocations of the single-vector primitive _solve, in order
\*   result  the array a solve returned
\*   shape   the tuple shape returned
\*   handle  the handle Ainv returned
\*   built   how many factorization routine invocations it made
NoOp == [op |-> "none", err |-> "none", A |-> None, rhs |-> NoBatch, calls |-> <<>>,
         result |-> NoResult, shape |-> <<0, 0>>, handle |-> NoHandle, built |-> 0]

(***************************************************************************)
(* Module initialisation, lines 13-40 and the class statements.            *)
(***************************************************************************)
\* The threads that call __mul__ on one instance, none of them started.
Threads == {1, 2}
NoCallers ==
    /\ tpc = [t \in Threads |-> "idle"]
    /\ tcols = [t \in Threads |-> 0]
    /\ th = [t \in Threads |-> NoHandle]
    /\ tused = [t \in Threads |-> <<>>]

Init ==
    /\ pc = "probe_mumps"
    /\ importError = "none"
    /\ active = <<>>
    /\ solvers = <<>>
    /\ BestSolver = "unbound"
    /\ _MumpsSolver = "unbound"
    /\ _MKLPardisoSolver = "unbound"
    /\ _SuperLUSolver = "unbound"
    /\ cls = "none"
    /\ _A = NoA
    /\ _Ainv = NoHandle
    /\ factorCalls = 0
    /\ released = {}
    /\ last = NoOp
    /\ NoCallers

\* The import statement raised an exception no except clause names.
Abort(e) ==
    /\ pc' = "failed"
    /\ importError' = e

\* lines 18-23: except (ImportError, SyntaxError)
ProbeMumps(outcome) ==
    /\ pc = "probe_mumps"
    /\ IF outcome = "ok"
       THEN /\ _MumpsSolver' = "loaded"
            /\ active' = Append(active, "mumps")
       ELSE /\ _MumpsSolver' = "None"
            /\ active' = active
    /\ pc' = "probe_mkl"
    /\ UNCHANGED <<importError, solvers, BestSolver, _MKLPardisoSolver, _SuperLUSolver>>
    /\ UNCHANGED objvars
    /\ UNCHANGED thrvars

\* lines 25-30: except ImportError
ProbeMKLPardiso(outcome) ==
    /\ pc = "probe_mkl"
    /\ CASE outcome = "ok" ->
              /\ _MKLPardisoSolver' = "loaded"
              /\ active' = Append(active, "mklpardiso")
              /\ pc' = "probe_splu"
              /\ importError' = importError
         [] outcome = "ImportError" ->
              /\ _MKLPardisoSolver' = "None"
              /\ active' = active
              /\ pc' = "probe_splu"
              /\ importError' = importError
         [] OTHER ->
              /\ Abort(outcome)
              /\ UNCHANGED <<_MKLPardisoSolver, active>>
    /\ UNCHANGED <<solvers, BestSolver, _MumpsSolver, _SuperLUSolver>>
    /\ UNCHANGED objvars
    /\ UNCHANGED thrvars

\* lines 32-37: except ImportError
ProbeSuperLU(outcome) ==
    /\ pc = "probe_splu"
    /\ CASE outcome = "ok" ->
              /\ _SuperLUSolver' = "loaded"
              /\ active' = Append(active, "splu")
              /\ pc' = "check"
              /\ importError' = importError
         [] outcome = "ImportError" ->
              /\ _SuperLUSolver' = "None"
              /\ active' = active
              /\ pc' = "check"
              /\ importError' = importError
         [] OTHER ->
              /\ Abort(outcome)
              /\ UNCHANGED <<_SuperLUSolver, active>>
    /\ UNCHANGED <<solvers, BestSolver, _MumpsSolver, _MKLPardisoSolver>>
    /\ UNCHANGED objvars
    /\ UNCHANGED thrvars

\* lines 39-40
CheckActive ==
    /\ pc = "check"
    /\ IF active = <<>>
       THEN Abort("ImportError")
       ELSE /\ pc' = "classes"
            /\ importError' = importError
    /\ UNCHANGED <<active, solvers, BestSolver,
                   _MumpsSolver, _MKLPardisoSolver, _SuperLUSolver>>
    /\ UNCHANGED objvars
    /\ UNCHANGED thrvars

\* lines 43-175: the class statements, the three entries of solvers, BestSolver
DefineClasses ==
    /\ pc = "classes"
    /\ solvers' = [k \in {"mumps", "mklpardiso", "splu"} |-> ClassOf[k]]
    /\ BestSolver' = solvers'[active[1]]
    /\ pc' = "done"
    /\ UNCHANGED <<importError, active, _MumpsSolver, _MKLPardisoSolver, _SuperLUSolver>>
    /\ UNCHANGED objvars
    /\ UNCHANGED thrvars

(***************************************************************************)
(* BaseSolver: the system matrix, lines 50-86.                             *)
(***************************************************************************)
\* The setter of A without the isinstance test: any value but None is stored.
ASetter_StoresAny(cur, a) ==
    IF a = None
    THEN [A |-> cur, err |-> "none"]
    ELSE [A |-> a, err |-> "none"]

\* The setter of A without the None test: None falls through to the
\* isinstance test and is rejected.
ASetter_RejectsNone(cur, a) ==
    IF a.kind = "spmatrix"
    THEN [A |-> a, err |-> "none"]
    ELSE [A |-> cur, err |-> "NotSparse"]

\* lines 75-82, the setter of A.  cur is the attribute _A before the
\* assignment; the result is the attribute after it and the exception.
ASetter(cur, a) ==
    IF a = None
    THEN [A |-> cur, err |-> "none"]
    ELSE IF a.kind = "spmatrix"
         THEN [A |-> a, err |-> "none"]
         ELSE [A |-> cur, err |-> "NotSparse"]

\* lines 68-74, the getter of A
AGetter(cur) ==
    IF cur = NoA
    THEN [A |-> None, err |-> "NotSet"]
    ELSE [A |-> cur, err |-> "none"]

\* scipy's .T.shape
\* The shape without the transpose.
TShape_Plain(m) == m.shape

TShape(m) == <<m.shape[2], m.shape[1]>>

\* lines 84-86
ShapeGetter(cur) ==
    LET g == AGetter(cur)
    IN  IF g.err # "none"
        THEN [shape |-> <<0, 0>>, err |-> g.err]
        ELSE [shape |-> TShape(g.A), err |-> "none"]

(***************************************************************************)
(* The factorization handle, lines 60-66 and 142-149.                      *)
(***************************************************************************)
\* The class attribute Solver (lines 48, 127, 140, 167).
Solver(c) ==
    CASE c = "MumpsSolver" -> _MumpsSolver
      [] c = "MKLPardisoSolver" -> _MKLPardisoSolver
      [] c = "SuperLUSolver" -> _SuperLUSolver
      [] OTHER -> "None"

\* What a factorization may do: return, or raise; for MKL PARDISO the
\* constructor may return and run_pardiso(12) raise.
FactorOutcomes(c) ==
    IF c = "MKLPardisoSolver" THEN {"ok", "raise", "raise12"} ELSE {"ok", "raise"}

\* The handle the n-th invocation of a factorization routine builds from a.
NewHandle(n, a, done) == [id |-> n, A |-> a.id, factorized |-> done]

\* BaseSolver.Ainv without the hasattr test: every access factorizes anew.
BaseAinv_NoCache(delegate, curA, curAinv, n, fout) ==
    LET g == AGetter(curA)
    IN  IF g.err # "none"
        THEN [Ainv |-> curAinv, handle |-> NoHandle, err |-> g.err, n |-> n]
        ELSE IF delegate # "loaded"
        THEN [Ainv |-> curAinv, handle |-> NoHandle, err |-> "TypeError", n |-> n]
        ELSE IF fout # "ok"
        THEN [Ainv |-> curAinv, handle |-> NoHandle, err |-> "NativeFactor", n |-> n + 1]
        ELSE LET h == NewHandle(n + 1, g.A, TRUE)
             IN  [Ainv |-> h, handle |-> h, err |-> "none", n |-> n + 1]

\* lines 60-66, BaseSolver.Ainv.  delegate is self.Solver, curA and curAinv
\* the attributes, n the invocations so far, fout what the routine does if
\* it is invoked.  The result: the attribute _Ainv afterwards, the handle
\* returned, the exception, and the invocations afterwards.
BaseAinv(delegate, curA, curAinv, n, fout) ==
    IF curAinv # NoHandle
    THEN [Ainv |-> curAinv, handle |-> curAinv, err |-> "none", n |-> n]
    ELSE LET g == AGetter(curA)
         IN  IF g.err # "none"
             THEN [Ainv |-> curAinv, handle |-> NoHandle, err |-> g.err, n |-> n]
             ELSE IF delegate # "loaded"
             THEN [Ainv |-> curAinv, handle |-> NoHandle, err |-> "TypeError", n |-> n]
             ELSE IF fout # "ok"
             THEN [Ainv |-> curAinv, handle |-> NoHandle, err |-> "NativeFactor", n |-> n + 1]
             ELSE LET h == NewHandle(n + 1, g.A, TRUE)
                  IN  [Ainv |-> h, handle |-> h, err |-> "none", n |-> n + 1]

\* lines 142-149, MKLPardisoSolver.Ainv: the attribute is assigned before
\* run_pardiso(12) runs.
MKLAinv(delegate, curA, curAinv, n, fout) ==
    IF curAinv # NoHandle
    THEN [Ainv |-> curAinv, handle |-> curAinv, err |-> "none", n |-> n]
    ELSE LET g == AGetter(curA)
         IN  IF g.err # "none"
             THEN [Ainv |-> curAinv, handle |-> NoHandle, err |-> g.err, n |-> n]
             ELSE IF delegate # "loaded"
             THEN [Ainv |-> curAinv, handle |-> NoHandle, err |-> "TypeError", n |-> n]
             ELSE IF fout = "raise"
             THEN [Ainv |-> curAinv, handle |-> NoHandle, err |-> "NativeFactor", n |-> n + 1]
             ELSE IF fout = "raise12"
             THEN [Ainv |-> NewHandle(n + 1, g.A, FALSE), handle |-> NoHandle,
                   err |-> "NativeFactor", n |-> n + 1]
             ELSE LET h == NewHandle(n + 1, g.A, TRUE)
                  IN  [Ainv |-> h, handle |-> h, err |-> "none", n |-> n + 1]

\* The property Ainv of an instance of class c.
AinvGetter(c, delegate, curA, curAinv, n, fout) ==
    IF c = "MKLPardisoSolver"
    THEN MKLAinv(delegate, curA, curAinv, n, fout)
    ELSE BaseAinv(delegate, curA, curAinv, n, fout)

(***************************************************************************)
(* BaseSolver.__mul__, lines 88-116, and the three _solve methods.         *)
(***************************************************************************)
\* getrow(j) transposed in place of getcol(j)
GetCol_Row(qs, j) ==
    [kind |-> "spmatrix", shape |-> <<qs.shape[1], 1>>,
     data |-> [p \in {<<x[2], 0>> : x \in {y \in DOMAIN qs.data : y[1] = j}} |->
               qs.data[<<j, p[1]>>]]]

\* scipy's getcol(j): the sparse matrix of one column
GetCol(qs, j) ==
    [kind |-> "spmatrix", shape |-> <<qs.shape[1], 1>>,
     data |-> [p \in {<<x[1], 0>> : x \in {y \in DOMAIN qs.data : y[2] = j}} |->
               qs.data[<<p[1], j>>]]]

\* scipy's toarray(): every entry, zero where the sparse matrix stores none
ToArray(m) ==
    [kind |-> "ndarray", shape |-> m.shape,
     data |-> [p \in (0 .. m.shape[1] - 1) \X (0 .. m.shape[2] - 1) |->
               IF p \in DOMAIN m.data THEN m.data[p] ELSE 0]]

\* numpy's ravel(): the entries in row-major order
Ravel(a) ==
    [k \in 0 .. a.shape[1] * a.shape[2] - 1 |->
     a.data[<<k \div a.shape[2], k % a.shape[2]>>]]

\* qs[:, 0] in place of qs[:, j]
Slice_First(qs, j) == [r \in 0 .. qs.shape[1] - 1 |-> qs.data[<<r, 0>>]]

\* numpy's qs[:, j]
Slice(qs, j) == [r \in 0 .. qs.shape[1] - 1 |-> qs.data[<<r, j>>]]

\* lines 99-110: the j-th vector qIter yields
qIter(qs, j) ==
    IF qs.kind = "spmatrix"
    THEN Ravel(ToArray(GetCol(qs, j)))
    ELSE Slice(qs, j)

\* What the backend's solve returns for vector q on handle h: a value that
\* depends on the matrix the handle was built from and on q, and that is
\* the solution only if the factorization completed on the handle.
NativeSolve(h, q) == [A |-> h.A, q |-> q, valid |-> h.factorized]

\* A column of np.empty that was never written.
Uninit == [A |-> 0, q |-> <<>>, valid |-> FALSE]

\* lines 129-130, 151-152, 169-170: _solve.  fails tells whether the
\* backend's solve raises.  on is the handle the backend's solve ran on.
_solve(c, delegate, curA, curAinv, n, q, fout, fails) ==
    LET g == AinvGetter(c, delegate, curA, curAinv, n, fout)
    IN  IF g.err # "none"
        THEN [Ainv |-> g.Ainv, n |-> g.n, err |-> g.err, val |-> Uninit, on |-> 0]
        ELSE IF fails
        THEN [Ainv |-> g.Ainv, n |-> g.n, err |-> "NativeSolve", val |-> Uninit,
              on |-> g.handle.id]
        ELSE [Ainv |-> g.Ainv, n |-> g.n, err |-> "none",
              val |-> NativeSolve(g.handle, q), on |-> g.handle.id]

\* result[:, -1 - i] = value
SetColumn_Reversed(cols, i, value) ==
    [cols EXCEPT ![Cardinality(DOMAIN cols) - 1 - i] = value]

\* line 114: result[:, i] = value
SetColumn(cols, i, value) == [cols EXCEPT ![i] = value]

\* The loop with the exception of _solve caught: it goes on to the columns
\* after the failing one.
RECURSIVE MulLoop_Continue(_, _, _, _, _, _, _, _)
MulLoop_Continue(c, delegate, curA, rhs, fout, sfail, i, st) ==
    IF i >= rhs.shape[2]
    THEN st
    ELSE LET q == qIter(rhs, i)
             s == _solve(c, delegate, curA, st.Ainv, st.n, q, fout, sfail = i + 1)
         IN  MulLoop_Continue(c, delegate, curA, rhs, fout, sfail, i + 1,
                     [Ainv |-> s.Ainv, n |-> s.n,
                      err |-> IF st.err # "none" THEN st.err ELSE s.err,
                      calls |-> Append(st.calls,
                                       [i |-> i, q |-> q, on |-> s.on, ret |-> s.val]),
                      cols |-> IF s.err = "none"
                               THEN SetColumn(st.cols, i, s.val)
                               ELSE st.cols])

\* lines 113-114: the loop from its i-th iteration on.  st carries the
\* attribute _Ainv, the factorization invocations, the exception, the
\* invocations of _solve and the columns of result.  sfail is the 1-based
\* position of the backend solve that raises, 0 if none does.  An
\* invocation of _solve is recorded with the index i of enumerate, the
\* vector q passed, the handle the backend's solve ran on (0 if it was not
\* reached) and the value returned (Uninit if it raised).
RECURSIVE MulLoop(_, _, _, _, _, _, _, _)
MulLoop(c, delegate, curA, rhs, fout, sfail, i, st) ==
    IF i >= rhs.shape[2] \/ st.err # "none"
    THEN st
    ELSE LET q == qIter(rhs, i)
             s == _solve(c, delegate, curA, st.Ainv, st.n, q, fout, sfail = i + 1)
         IN  MulLoop(c, delegate, curA, rhs, fout, sfail, i + 1,
                     [Ainv |-> s.Ainv, n |-> s.n, err |-> s.err,
                      calls |-> Append(st.calls,
                                       [i |-> i, q |-> q, on |-> s.on, ret |-> s.val]),
                      cols |-> IF s.err = "none"
                               THEN SetColumn(st.cols, i, s.val)
                               ELSE st.cols])

\* lines 88-116: __mul__ on an instance of class c
Multiply(c, delegate, curA, curAinv, n, rhs, fout, sfail) ==
    MulLoop(c, delegate, curA, rhs, fout, sfail, 0,
            [Ainv |-> curAinv, n |-> n, err |-> "none", calls |-> <<>>,
             cols |-> [j \in 0 .. rhs.shape[2] - 1 |-> Uninit]])

(***************************************************************************)
(* The operations on the instance.                                         *)
(***************************************************************************)
\* The adapter code reads the registry only through its class attribute
\* Solver, which is loaded or None.  An instance is explored in these two
\* outcomes of the probes, which between them give every class a loaded and
\* an unloaded delegate.
InstanceEnvironments == {<<"mumps", "mklpardiso">>, <<"splu">>}

\* lines 50-58: __init__ of one of the adapter classes.  If the setter
\* raises, the caller gets no instance.
Construct(c, a) ==
    /\ pc = "done"
    /\ active \in InstanceEnvironments
    /\ cls = "none"
    /\ LET s == ASetter(NoA, a)
       IN  /\ cls' = IF s.err = "none" THEN c ELSE "none"
           /\ _A' = IF s.err = "none" THEN s.A ELSE NoA
           /\ last' = [NoOp EXCEPT !.op = "init", !.err = s.err, !.A = a]
    /\ UNCHANGED <<_Ainv, factorCalls, released>>
    /\ UNCHANGED modvars
    /\ UNCHANGED thrvars

\* A setter that discards the cached handle when it stores a matrix.
SetA_DropsHandle(a) ==
    /\ cls # "none"
    /\ LET s == ASetter(_A, a)
       IN  /\ _A' = s.A
           /\ _Ainv' = IF s.err = "none" /\ a # None THEN NoHandle ELSE _Ainv
           /\ last' = [NoOp EXCEPT !.op = "setA", !.err = s.err, !.A = a]
    /\ UNCHANGED <<cls, factorCalls, released>>
    /\ UNCHANGED modvars
    /\ UNCHANGED thrvars

\* lines 75-82: solver.A = a
SetA(a) ==
    /\ cls # "none"
    /\ LET s == ASetter(_A, a)
       IN  /\ _A' = s.A
           /\ last' = [NoOp EXCEPT !.op = "setA", !.err = s.err, !.A = a]
    /\ UNCHANGED <<cls, _Ainv, factorCalls, released>>
    /\ UNCHANGED modvars
    /\ UNCHANGED thrvars

\* lines 68-74: solver.A
GetA ==
    /\ cls # "none"
    /\ LET g == AGetter(_A)
       IN  last' = [NoOp EXCEPT !.op = "getA", !.err = g.err, !.A = g.A]
    /\ UNCHANGED <<cls, _A, _Ainv, factorCalls, released>>
    /\ UNCHANGED modvars
    /\ UNCHANGED thrvars

\* lines 84-86: solver.shape
GetShape ==
    /\ cls # "none"
    /\ LET g == ShapeGetter(_A)
       IN  last' = [NoOp EXCEPT !.op = "shape", !.err = g.err, !.shape = g.shape]
    /\ UNCHANGED <<cls, _A, _Ainv, factorCalls, released>>
    /\ UNCHANGED modvars
    /\ UNCHANGED thrvars

\* lines 60-66, 142-149: solver.Ainv
GetAinv(fout) ==
    /\ cls # "none"
    /\ LET g == AinvGetter(cls, Solver(cls), _A, _Ainv, factorCalls, fout)
       IN  /\ g.n <= MaxFactorCalls
           /\ _Ainv' = g.Ainv
           /\ factorCalls' = g.n
           /\ last' = [NoOp EXCEPT !.op = "Ainv", !.err = g.err, !.handle = g.handle,
                                   !.built = g.n - factorCalls]
    /\ UNCHANGED <<cls, _A, released>>
    /\ UNCHANGED modvars
    /\ UNCHANGED thrvars

\* lines 88-116: solver * rhs
Mul(rhs, fout, sfail) ==
    /\ cls # "none"
    /\ LET r == Multiply(cls, Solver(cls), _A, _Ainv, factorCalls, rhs, fout, sfail)
       IN  /\ r.n <= MaxFactorCalls
           /\ _Ainv' = r.Ainv
           /\ factorCalls' = r.n
           /\ last' = [NoOp EXCEPT !.op = "mul", !.err = r.err, !.rhs = rhs,
                                   !.calls = r.calls,
                                   !.result = IF r.err = "none"
                                              THEN [shape |-> rhs.shape, cols |-> r.cols]
                                              ELSE NoResult,
                                   !.built = r.n - factorCalls]
    /\ UNCHANGED <<cls, _A, released>>
    /\ UNCHANGED modvars
    /\ UNCHANGED thrvars

\* __del__ without del self._Ainv: the handle is released and stays cached.
Del_KeepsHandle ==
    /\ cls = "MKLPardisoSolver"
    /\ IF _Ainv # NoHandle
       THEN /\ released' = released \cup {_Ainv.id}
            /\ last' = [NoOp EXCEPT !.op = "del", !.handle = _Ainv]
       ELSE /\ last' = [NoOp EXCEPT !.op = "del"]
            /\ UNCHANGED released
    /\ UNCHANGED <<cls, _A, _Ainv, factorCalls>>
    /\ UNCHANGED modvars
    /\ UNCHANGED thrvars

\* lines 154-157: MKLPardisoSolver.__del__; the other classes define none
Del ==
    /\ cls = "MKLPardisoSolver"
    /\ IF _Ainv # NoHandle
       THEN /\ released' = released \cup {_Ainv.id}
            /\ _Ainv' = NoHandle
            /\ last' = [NoOp EXCEPT !.op = "del", !.handle = _Ainv]
       ELSE /\ last' = [NoOp EXCEPT !.op = "del"]
            /\ UNCHANGED <<_Ainv, released>>
    /\ UNCHANGED <<cls, _A, factorCalls>>
    /\ UNCHANGED modvars
    /\ UNCHANGED thrvars

\* The inputs that make a difference: what the factorization routine does
\* matters only to an operation that invokes it (reads tells whether the
\* operation reads Ainv at all), and the backend's solve can only fail at a
\* column the batch has.
FactorInputs(reads) ==
    IF reads /\ _Ainv = NoHandle /\ _A # NoA /\ Solver(cls) = "loaded"
    THEN FactorOutcomes(cls)
    ELSE {"ok"}
SolveInputs(rhs) == 0 .. rhs.shape[2]

Next ==
    \/ \E o \in LoadOutcomes : ProbeMumps(o)
    \/ \E o \in LoadOutcomes : ProbeMKLPardiso(o)
    \/ \E o \in LoadOutcomes \ {"SyntaxError"} : ProbeSuperLU(o)
    \/ CheckActive
    \/ DefineClasses
    \/ \E c \in {solvers[k] : k \in DOMAIN solvers}, a \in AValues : Construct(c, a)
    \/ \E a \in AValues : SetA(a)
    \/ GetA
    \/ GetShape
    \/ \E fout \in FactorInputs(TRUE) : GetAinv(fout)
    \/ \E rhs \in Batches :
          \E fout \in FactorInputs(rhs.shape[2] > 0), sfail \in SolveInputs(rhs) :
             Mul(rhs, fout, sfail)
    \/ Del

Spec == Init /\ [][Next]_vars

(***************************************************************************)
(* Two threads in __mul__ on one instance.  The code takes no lock, so the *)
(* threads interleave between the steps of the property Ainv (lines 60-66  *)
(* and 142-149): the test of the attribute, the call of the factorization  *)
(* routine, the assignment of _Ainv, run_pardiso(12), and the read of the  *)
(* attribute that is returned.                                             *)
(***************************************************************************)
\* The registry after the module body in environment env, and a fresh
\* instance of a class with a loaded delegate that was given a matrix.
InitThreads ==
    /\ pc = "done"
    /\ importError = "none"
    /\ active \in InstanceEnvironments
    /\ _MumpsSolver = IF active[1] = "mumps" THEN "loaded" ELSE "None"
    /\ _MKLPardisoSolver = IF active[1] = "mumps" THEN "loaded" ELSE "None"
    /\ _SuperLUSolver = IF active[1] = "splu" THEN "loaded" ELSE "None"
    /\ solvers = [k \in {"mumps", "mklpardiso", "splu"} |-> ClassOf[k]]
    /\ BestSolver = solvers[active[1]]
    /\ cls \in {"MumpsSolver", "MKLPardisoSolver", "SuperLUSolver"}
    /\ Solver(cls) = "loaded"
    /\ _A \in SparseMatrices
    /\ _Ainv = NoHandle
    /\ factorCalls = 0
    /\ released = {}
    /\ last = [NoOp EXCEPT !.op = "init", !.A = _A]
    /\ NoCallers

\* What a step of a thread leaves alone.
ThreadFrame == UNCHANGED <<modvars, cls, _A, released, last>>

\* lines 88-112: thread t enters __mul__ with a batch of k columns and
\* reaches the first self._solve(q).
TStart(t, k) ==
    /\ tpc[t] = "idle"
    /\ tpc' = [tpc EXCEPT ![t] = "hasattr"]
    /\ tcols' = [tcols EXCEPT ![t] = k]
    /\ UNCHANGED <<_Ainv, factorCalls, th, tused>>
    /\ ThreadFrame

\* line 64, not hasattr(self, '_Ainv'); line 145, getattr(...) is None
THasAttr(t) ==
    /\ tpc[t] = "hasattr"
    /\ tpc' = [tpc EXCEPT ![t] = IF _Ainv = NoHandle THEN "factor" ELSE "return"]
    /\ UNCHANGED <<_Ainv, factorCalls, tcols, th, tused>>
    /\ ThreadFrame

\* lines 65 and 146, the right-hand side: self.Solver(self.A) returns a
\* factorized handle, self.Solver(self.A, 13) one that is not yet.
TFactor(t) ==
    /\ tpc[t] = "factor"
    /\ factorCalls' = factorCalls + 1
    /\ th' = [th EXCEPT ![t] = NewHandle(factorCalls + 1, _A, cls # "MKLPardisoSolver")]
    /\ tpc' = [tpc EXCEPT ![t] = "store"]
    /\ UNCHANGED <<_Ainv, tcols, tused>>
    /\ ThreadFrame

\* lines 65 and 146, the assignment: self._Ainv = ...
TStore(t) ==
    /\ tpc[t] = "store"
    /\ _Ainv' = th[t]
    /\ tpc' = [tpc EXCEPT ![t] = IF cls = "MKLPardisoSolver" THEN "phase12" ELSE "return"]
    /\ UNCHANGED <<factorCalls, tcols, th, tused>>
    /\ ThreadFrame

\* line 147: self._Ainv.run_pardiso(12) factorizes the object the attribute
\* holds now, whichever thread built it.
TPhase12(t) ==
    /\ tpc[t] = "phase12"
    /\ _Ainv' = [_Ainv EXCEPT !.factorized = TRUE]
    /\ th' = [u \in Threads |->
                 IF th[u].id = _Ainv.id THEN [th[u] EXCEPT !.factorized = TRUE] ELSE th[u]]
    /\ tpc' = [tpc EXCEPT ![t] = "return"]
    /\ UNCHANGED <<factorCalls, tcols, tused>>
    /\ ThreadFrame

\* lines 66 and 149: return self._Ainv reads the attribute again.
TReturn(t) ==
    /\ tpc[t] = "return"
    /\ th' = [th EXCEPT ![t] = _Ainv]
    /\ tpc' = [tpc EXCEPT ![t] = "solve"]
    /\ UNCHANGED <<_Ainv, factorCalls, tcols, tused>>
    /\ ThreadFrame

\* lines 131, 153, 171 and 113-114: the backend's solve on the handle that
\* was returned, then the next column or the end of the call.
TSolve(t) ==
    /\ tpc[t] = "solve"
    /\ tused' = [tused EXCEPT ![t] = Append(@, [on |-> th[t].id, valid |-> th[t].factorized])]
    /\ tpc' = [tpc EXCEPT ![t] = IF Len(tused[t]) + 1 < tcols[t] THEN "hasattr" ELSE "done"]
    /\ UNCHANGED <<_Ainv, factorCalls, tcols, th>>
    /\ ThreadFrame

NextThreads ==
    \/ \E t \in Threads, k \in 1 .. MaxCols : TStart(t, k)
    \/ \E t \in Threads : THasAttr(t)
    \/ \E t \in Threads : TFactor(t)
    \/ \E t \in Threads : TStore(t)
    \/ \E t \in Threads : TPhase12(t)
    \/ \E t \in Threads : TReturn(t)
    \/ \E t \in Threads : TSolve(t)

SpecThreads == InitThreads /\ [][NextThreads]_vars

(***************************************************************************)
(* Notions the properties are stated with.                                 *)
(***************************************************************************)
\* The entry of a batch at row r, column j, and its j-th column, whatever
\* the representation.
Entry(rhs, r, j) == IF <<r, j>> \in DOMAIN rhs.data THEN rhs.data[<<r, j>>] ELSE 0
Column(rhs, j) == [r \in 0 .. rhs.shape[1] - 1 |-> Entry(rhs, r, j)]
ColumnIndices(rhs) == 0 .. rhs.shape[2] - 1

\* A solve that returned its result.
Solved(l) == l.op = "mul" /\ l.err = "none"
\* An operation that reads the property Ainv.
ReadsAinv(l) == l.op = "Ainv" \/ (l.op = "mul" /\ l.calls # <<>>)

(***************************************************************************)
(* C1.  The claim: over any sequence of solve calls and handle accesses on *)
(* an instance, the backend factorization routine is invoked at most once, *)
(* and every access after the first returns the same cached handle.        *)
(***************************************************************************)
\* C1 as claimed: as long as no destructor has dropped a handle, the
\* factorization routine has been invoked at most once.
C1_InvokedAtMostOnce == released = {} => factorCalls <= 1

\* C1 as amended: once a handle is cached, a solve call or handle access
\* does not invoke the factorization routine, leaves the cached handle in
\* place and uses exactly it (an access returns it, every backend solve of
\* the call runs on it); and unless a destructor has dropped a handle, the
\* cached handle was built by the latest invocation of the routine, so the
\* routine is invoked again only after an invocation that raised.
C1_CachedStep ==
    (_Ainv # NoHandle /\ ReadsAinv(last'))
        => /\ _Ainv' = _Ainv
           /\ factorCalls' = factorCalls
           /\ last'.built = 0
           /\ last'.op = "Ainv" => (last'.err = "none" /\ last'.handle = _Ainv)
           /\ last'.op = "mul" =>
                 \A k \in 1 .. Len(last'.calls) : last'.calls[k].on = _Ainv.id
C1_BuiltByLatest ==
    (released = {} /\ _Ainv # NoHandle) => _Ainv.id = factorCalls
C1_CachedHandleKept == [][C1_CachedStep]_vars /\ []C1_BuiltByLatest

\* A solve of a nonempty batch that found the handle cached.
C1_Witness ==
    /\ Solved(last)
    /\ last.calls # <<>>
    /\ last.built = 0
    /\ _Ainv # NoHandle

(***************************************************************************)
(* C2.  The claim: every single-vector solve uses a handle factorized from *)
(* the matrix currently set; assigning the matrix again returns the        *)
(* adapter to Unfactorized.                                                *)
(***************************************************************************)
\* C2 as claimed: after a solve, the handle its backend solves ran on was
\* built from the matrix that is set on the instance.
C2_SolveUsesCurrentMatrix ==
    (last.op = "mul" /\ \E k \in 1 .. Len(last.calls) : last.calls[k].on # 0)
        => \A k \in 1 .. Len(last.calls) :
              last.calls[k].on # 0 =>
                 (_Ainv.id = last.calls[k].on /\ _Ainv.A = _A.id)

(***************************************************************************)
(* C3.  The claim: on an instance on which no matrix was ever set,         *)
(* requesting the matrix, the shape, the handle or a solve of any batch    *)
(* fails with 'System matrix has not been set', and no handle is built.    *)
(***************************************************************************)
\* C3 as claimed.  The attribute _A is never deleted, so it is absent
\* exactly when no matrix was ever set.
C3_UnsetMatrixFails ==
    (cls # "none" /\ _A = NoA)
        => /\ last.op \in {"getA", "shape", "Ainv", "mul"} => last.err = "NotSet"
           /\ _Ainv = NoHandle
           /\ factorCalls = 0

(***************************************************************************)
(* C4.  The claim: assigning a value that is neither None nor a sparse     *)
(* matrix, at construction or later, fails with an error and leaves the    *)
(* adapter's state unchanged.                                              *)
(***************************************************************************)
\* C4: an assignment of a non-sparse value raises, and the step changes
\* neither the class, the matrix, the handle nor the counters (a failed
\* construction leaves no instance).
C4_RejectStep ==
    (last'.op \in {"init", "setA"} /\ last'.A \in NonSparse)
        => /\ last'.err = "NotSparse"
           /\ UNCHANGED <<cls, _A, _Ainv, factorCalls, released>>
C4_NonSparseRejected == [][C4_RejectStep]_vars

\* A rejected assignment on an instance with a matrix and a cached handle.
C4_Witness ==
    /\ last.op = "setA"
    /\ last.A \in NonSparse
    /\ last.err = "NotSparse"
    /\ _A \in SparseMatrices
    /\ _Ainv # NoHandle

(***************************************************************************)
(* C5.  The claim: assigning None as the system matrix is a no-op in every *)
(* state.                                                                  *)
(***************************************************************************)
\* C5: an assignment of None raises nothing and the step changes neither
\* the matrix (set or absent) nor the handle; a construction with None
\* gives an instance with no matrix.
C5_NoneStep ==
    (last'.op \in {"init", "setA"} /\ last'.A = None)
        => /\ last'.err = "none"
           /\ UNCHANGED <<_A, _Ainv, factorCalls, released>>
           /\ last'.op = "setA" => cls' = cls
           /\ last'.op = "init" => (cls' # "none" /\ _A' = NoA)
C5_NoneIsNoOp == [][C5_NoneStep]_vars

\* None assigned on an instance with a matrix and a cached handle.
C5_Witness ==
    /\ last.op = "setA"
    /\ last.A = None
    /\ _A \in SparseMatrices
    /\ _Ainv # NoHandle

(***************************************************************************)
(* C6.  The claim: within one solve call on a batch of N columns the       *)
(* primitive is invoked exactly N times, in column order 0..N-1, the i-th  *)
(* invocation receiving column i, and the value it returns is written to   *)
(* column i of the output, which has the shape of the batch.               *)
(***************************************************************************)
\* C6: in every solve call the invocations of _solve are numbered 0, 1, ...
\* in order, never more than the batch has columns, and the k-th receives
\* column k of the batch; a call that returns its output has made exactly N
\* invocations, and the output has the batch's shape and holds in column i
\* the value the i-th invocation returned.
C6_ColumnOrder ==
    last.op = "mul" =>
        /\ Len(last.calls) <= last.rhs.shape[2]
        /\ \A k \in 1 .. Len(last.calls) :
              /\ last.calls[k].i = k - 1
              /\ last.calls[k].q = Column(last.rhs, k - 1)
        /\ last.err = "none" =>
              /\ Len(last.calls) = last.rhs.shape[2]
              /\ last.result.shape = last.rhs.shape
              /\ DOMAIN last.result.cols = ColumnIndices(last.rhs)
              /\ \A i \in ColumnIndices(last.rhs) :
                    last.result.cols[i] = last.calls[i + 1].ret

\* A solve of two different columns returned.
C6_Witness ==
    /\ Solved(last)
    /\ last.rhs.shape[2] = 2
    /\ Column(last.rhs, 0) # Column(last.rhs, 1)
    /\ Len(last.calls) = 2

(***************************************************************************)
(* C7.  The claim: solving a batch in one call gives in each column j the  *)
(* result of solving the one-column batch of column j in a separate call,  *)
(* whatever solves were performed before.                                  *)
(***************************************************************************)
\* C7: of two solve calls made one after the other on an instance (in
\* either order, after any history), equal columns have equal result
\* columns, and so have equal columns within one call.
C7_SameColumnsSameResults(l1, l2) ==
    \A j \in ColumnIndices(l1.rhs), k \in ColumnIndices(l2.rhs) :
        Column(l1.rhs, j) = Column(l2.rhs, k) => l1.result.cols[j] = l2.result.cols[k]
C7_Step ==
    (Solved(last) /\ Solved(last')) => C7_SameColumnsSameResults(last, last')
C7_Within == Solved(last) => C7_SameColumnsSameResults(last, last)
C7_BatchingIndependent == [][C7_Step]_vars /\ []C7_Within

\* A one-column solve that returned, on a handle an earlier call built.
C7_Witness ==
    /\ Solved(last)
    /\ last.rhs.shape[2] = 1
    /\ last.built = 0
    /\ factorCalls > 0

(***************************************************************************)
(* C8.  The claim: a batch supplied as a sparse matrix and the batch with  *)
(* the same columns supplied as a dense matrix pass the same dense column  *)
(* vectors to the primitive and return the same output.                    *)
(***************************************************************************)
\* C8: of two solve calls made one after the other, one with a sparse and
\* one with a dense batch of the same shape and columns, both pass the same
\* vectors to _solve in the same order and return the same output.
C8_SameBatch(l1, l2) ==
    /\ l1.rhs.kind # l2.rhs.kind
    /\ l1.rhs.shape = l2.rhs.shape
    /\ \A j \in ColumnIndices(l1.rhs) : Column(l1.rhs, j) = Column(l2.rhs, j)
C8_ColumnsOf(rhs) == [j \in ColumnIndices(rhs) |-> Column(rhs, j)]
C8_Passed(l) == [k \in 1 .. Len(l.calls) |-> l.calls[k].q]
C8_Step ==
    (Solved(last) /\ Solved(last') /\ C8_SameBatch(last, last'))
        => /\ C8_Passed(last) = C8_Passed(last')
           /\ last.result = last'.result
C8_DenseArgs ==
    (last.op = "mul" /\ last.rhs.kind = "spmatrix")
        => \A k \in 1 .. Len(last.calls) :
              last.calls[k].q = Slice(DenseOf(C8_ColumnsOf(last.rhs)), k - 1)
C8_RepresentationInvariant == [][C8_Step]_vars /\ []C8_DenseArgs

\* A sparse batch with a column that stores fewer entries than it has rows
\* was solved.
C8_Witness ==
    /\ Solved(last)
    /\ last.rhs.kind = "spmatrix"
    /\ last.rhs.shape[2] = 2
    /\ Cardinality(DOMAIN last.rhs.data) < 2 * Cardinality(RhsRows)

(***************************************************************************)
(* C9.  The claim, for the MKL PARDISO adapter: destruction runs the       *)
(* release phase on the handle and drops it when a handle exists and does  *)
(* nothing when none was built; destroying twice releases a handle only    *)
(* once; the solve phase is never run on a released handle (a solve after  *)
(* destruction builds and factorizes a fresh handle).                      *)
(***************************************************************************)
\* C9, destruction: with a handle cached, __del__ releases exactly that
\* handle, which was not released before, and drops it; with none cached it
\* releases nothing.
C9_DelStep ==
    last'.op = "del" =>
        IF _Ainv # NoHandle
        THEN /\ _Ainv.id \notin released
             /\ released' = released \cup {_Ainv.id}
             /\ last'.handle = _Ainv
             /\ _Ainv' = NoHandle
        ELSE /\ released' = released
             /\ last'.handle = NoHandle
             /\ _Ainv' = NoHandle
\* C9, solving: no backend solve of a call runs on a released handle, and a
\* solve that finds no handle after a destruction invokes the factorization
\* routine once and caches a new, factorized handle of the matrix set.
C9_MulStep ==
    (cls = "MKLPardisoSolver" /\ last'.op = "mul") =>
        /\ \A k \in 1 .. Len(last'.calls) : last'.calls[k].on \notin released
        /\ released' = released
        /\ (_Ainv = NoHandle /\ released # {} /\ Solved(last') /\ last'.calls # <<>>)
              => /\ last'.built = 1
                 /\ _Ainv'.id \notin released
                 /\ _Ainv'.factorized
                 /\ _Ainv'.A = _A.id
\* C9: a cached handle is never a released one.
C9_CachedNotReleased == _Ainv # NoHandle => _Ainv.id \notin released
Delegate(k) ==
    CASE k = "mumps" -> _MumpsSolver
      [] k = "mklpardiso" -> _MKLPardisoSolver
      [] k = "splu" -> _SuperLUSolver
IsLoaded(k) == Delegate(k) = "loaded"
LoadedInOrder == SelectSeq(Backends, IsLoaded)

\* C10 as claimed: once the module body has ended with a backend loaded, it
\* has ended normally, active lists the loaded backends in priority order
\* and BestSolver is the class of the first.
C10_ActiveAndBest ==
    (pc \in {"done", "failed"} /\ LoadedInOrder # <<>>)
        => /\ pc = "done"
           /\ active = LoadedInOrder
           /\ BestSolver = ClassOf[LoadedInOrder[1]]

\* What holds of the code: where the module body runs to its end, active
\* and BestSolver are as claimed.
C10_WhenBodyCompletes ==
    pc = "done"
        => /\ LoadedInOrder # <<>>
           /\ active = LoadedInOrder
           /\ BestSolver = ClassOf[LoadedInOrder[1]]

(***************************************************************************)
(* C11.  The claim: initialization fails with the fatal 'could not load    *)
(* backend' error if and only if no backend is loadable; when it fails no  *)
(* default adapter is exposed; when a backend loads it completes.          *)
(***************************************************************************)
\* The module body ended with the ImportError of line 40.
FatalNoBackend == pc = "failed" /\ importError = "ImportError"

\* C11 as claimed: once the module body has ended, it ended with the fatal
\* error exactly if no backend loaded, a failed import binds no BestSolver,
\* and with a backend loaded the body ran to its end.
C11_FatalIffNoBackend ==
    pc \in {"done", "failed"}
        => /\ FatalNoBackend <=> LoadedInOrder = <<>>
           /\ pc = "failed" => BestSolver = "unbound"
           /\ LoadedInOrder # <<>> => pc = "done"

\* What holds of the code: the fatal error of line 40 is raised only with
\* no backend loaded, and a failed import binds no BestSolver.
C11_FatalOnlyWithoutBackend ==
    /\ FatalNoBackend => LoadedInOrder = <<>>
    /\ pc = "failed" => BestSolver = "unbound"

(***************************************************************************)
(* C12.  The claim: after initialization the mapping solvers contains      *)
(* exactly the available backends, so every adapter class obtained from it *)
(* has a loaded factorization delegate.                                    *)
(***************************************************************************)
\* C12 as claimed: after the module body the keys of solvers are the
\* identifiers in active, and the class under each key has a loaded Solver.
C12_SolversAreActive ==
    pc = "done"
        => /\ DOMAIN solvers = {active[i] : i \in 1 .. Len(active)}
           /\ \A k \in DOMAIN solvers : Solver(solvers[k]) = "loaded"

(***************************************************************************)
(* C13.  A failure of the factorization routine or of the backend's solve  *)
(* during a solve call ends the call with that error and without a result; *)
(* no later column is passed to _solve and the failed native call is not   *)
(* repeated within the call.                                               *)
(***************************************************************************)
NativeErrors == {"NativeFactor", "NativeSolve"}

\* C13: in the record of a solve call, an invocation of _solve that raised
\* is the last one of the call, the call ended with its error and returned
\* no result; a call that ended with a native error made one invocation per
\* column up to the failing one, invoked the factorization routine at most
\* once, and failed in the routine (backend's solve not reached) or in the
\* backend's solve (reached) according to the error it ended with.
C13_NativeFailureEndsCall ==
    last.op = "mul"
        => /\ \A k \in 1 .. Len(last.calls) :
                 /\ last.calls[k].i = k - 1
                 /\ last.calls[k].ret = Uninit
                       => /\ k = Len(last.calls)
                          /\ last.err # "none"
                          /\ last.result = NoResult
           /\ last.err \in NativeErrors
                 => /\ last.result = NoResult
                    /\ Len(last.calls) >= 1
                    /\ last.calls[Len(last.calls)].ret = Uninit
                    /\ last.built <= 1
                    /\ last.err = "NativeFactor"
                          => last.built = 1 /\ last.calls[Len(last.calls)].on = 0
                    /\ last.err = "NativeSolve"
                          => last.calls[Len(last.calls)].on # 0

\* A solve call of two columns whose first backend solve raised.
C13_Witness ==
    /\ last.op = "mul"
    /\ last.err = "NativeSolve"
    /\ last.rhs.shape[2] = 2
    /\ Len(last.calls) = 1

(***************************************************************************)
(* C14.  Assigning a sparse matrix to an instance that has a cached handle *)
(* replaces the stored matrix and leaves the handle as it is; the          *)
(* factorization routine is not invoked.                                   *)
(***************************************************************************)
C14_Step ==
    (last'.op = "setA" /\ last'.A \in SparseMatrices /\ _Ainv # NoHandle)
        => /\ last'.err = "none"
           /\ _A' = last'.A
           /\ _Ainv' = _Ainv
           /\ factorCalls' = factorCalls
           /\ released' = released

\* C14: every assignment of a sparse matrix made with a handle cached
\* stores the matrix and keeps handle, invocation count and releases.
C14_SetterKeepsHandle == [][C14_Step]_vars

\* A matrix other than the one the cached handle factorized was assigned.
C14_Witness ==
    /\ last.op = "setA"
    /\ last.err = "none"
    /\ last.A \in SparseMatrices
    /\ _A = last.A
    /\ _Ainv # NoHandle
    /\ _Ainv.A # _A.id

(***************************************************************************)
(* C15.  The claim: when two threads start a solve on an instance that has *)
(* a matrix and no handle, the handle is written once, the factorization   *)
(* routine is invoked at most once under every interleaving, and every     *)
(* solve of both threads uses that one handle.                             *)
(***************************************************************************)
\* The handles the backend solves of both threads ran on.
UsedByThreads ==
    UNION {{tused[t][i].on : i \in DOMAIN tused[t]} : t \in Threads}

\* C15 as claimed: the two threads invoke the factorization routine at most
\* once between them and all their solves ran on one handle.
C15_OneFactorizationForBoth ==
    /\ factorCalls <= 1
    /\ Cardinality(UsedByThreads) <= 1

(***************************************************************************)
(* C16.  The claim: each of the three probes records its outcome without   *)
(* raising, whether the load failed with an import error or a syntax       *)
(* error; the probes after it still run and the module body aborts only    *)
(* when no backend has loaded.                                             *)
(***************************************************************************)
\* Every probe has bound its delegate, to the class or to None.
AllProbesRan == \A k \in {"mumps", "mklpardiso", "splu"} : Delegate(k) # "unbound"

\* C16 as claimed: a module body that failed ran all three probes, found no
\* backend and raised the ImportError of line 40.
C16_ProbesNeverRaise ==
    pc = "failed"
        => /\ importError = "ImportError"
           /\ AllProbesRan
           /\ LoadedInOrder = <<>>

(***************************************************************************)
(* C17.  solver.A returns the sparse matrix most recently assigned with    *)
(* success, solver.shape the transposed shape (columns, rows) of it;       *)
(* neither changes the stored matrix nor builds a handle.                  *)
(***************************************************************************)
\* The stored matrix changes only in a successful assignment of a sparse
\* matrix, and every such assignment stores its argument.
C17_AssignStep ==
    /\ _A' # _A
          => last'.op \in {"init", "setA"} /\ last'.err = "none" /\ _A' = last'.A
    /\ (last' # last /\ last'.op \in {"init", "setA"}
            /\ last'.err = "none" /\ last'.A \in SparseMatrices)
          => _A' = last'.A

\* A read returns the stored matrix, or its shape with rows and columns
\* exchanged, and leaves matrix, handle and invocation count as they were.
C17_ReadStep ==
    (last' # last /\ last'.op \in {"getA", "shape"} /\ last'.err = "none")
        => /\ _A \in SparseMatrices
           /\ last'.op = "getA" => last'.A = _A
           /\ last'.op = "shape" => last'.shape = <<_A.shape[2], _A.shape[1]>>
           /\ UNCHANGED <<_A, _Ainv, factorCalls>>

\* C17: solver.A and solver.shape read the latest successfully assigned
\* sparse matrix and change nothing.
C17_ReadsLatestMatrix == [][C17_AssignStep /\ C17_ReadStep]_vars

\* The shape of the 2 x 3 matrix was read as (3, 2), with no handle built.
C17_Witness ==
    /\ last.op = "shape"
    /\ last.err = "none"
    /\ _A.shape = <<2, 3>>
    /\ last.shape = <<3, 2>>
    /\ _Ainv = NoHandle

(***************************************************************************)
(* C18.  The claim: a cached handle is one whose factorization completed;  *)
(* if phase 12 fails after the native object was created, no handle stays  *)
(* cached.                                                                 *)
(***************************************************************************)
\* C18 as claimed: the attribute _Ainv, when present, holds a factorized
\* handle.
C18_CachedIsFactorized == _Ainv # NoHandle => _Ainv.factorized

====
